---- MODULE Spec2Model ----
(***************************************************************************)
(* Ostrich Talks backend: the lesson submission pipeline (score, rewards,  *)
(* streak, level), lesson start / reset, the league ledger and the league  *)
(* leaderboard, as implemented by the Express routes over the Mongo store. *)
(*                                                                         *)
(* Every request is one action: the handler runs from its first store read *)
(* to its response.  The store is (users, progress, lessons); `now` is the *)
(* server clock and `resp` the body of the last response sent.  Where      *)
(* requests overlap, `reqs` holds the handlers in flight, each between two *)
(* of its awaits; `tiers` is the League collection of the admin routes.    *)
(*                                                                         *)
(* Strings the code normalises (answers) are sequences of one-character    *)
(* strings, so that toLowerCase and trim are computed, not assumed.        *)
(* Math.round over doubles is computed in exact integer arithmetic; for    *)
(* every reward and exercise count of the lesson documents below the       *)
(* double computation yields the same integer.                             *)
(***************************************************************************)
EXTENDS Integers, Sequences, FiniteSets, TLC

VARIABLES users, progress, lessons, now, resp, reqs, tiers

vars == <<users, progress, lessons, now, resp, reqs, tiers>>

(***************************************************************************)
(* Bounds of the model.                                                    *)
(***************************************************************************)
\* the clock stops at this tick
MaxTime == 4
\* longest answer list of a request in Spec
MaxAnswers == 1
\* largest exerciseIndex a request of Spec names
MaxIndex == 1
\* longest answer list of a request in SpecSubmitOnce
MaxAnswersOnce == 3
\* largest exerciseIndex a request of SpecSubmitOnce names
MaxIndexOnce == 3
\* most exercises of the lesson document SpecSubmitOnce draws
MaxExercises == 4
\* submissions are no longer sent once a user's XP exceeds this
MaxXp == 600
\* a progress record is no longer submitted to once it holds this many results
MaxResults == 2
\* start is no longer sent once a record has this many attempts
MaxAttempts == 1

\* 1000 * 60 * 60 * 24 ms, in clock ticks of twelve hours
TicksPerDay == 2

Users == {"u1", "u2", "u3"}
\* the users who send lesson requests; the others only hold records
Learners == {"u1"}

NoDate == -1

(***************************************************************************)
(* Lesson documents (read-only in these routes).                           *)
(***************************************************************************)
Lessons == {"intro", "numbers"}

Exercise(answer, pts) == [correctAnswer |-> answer, points |-> pts]

\* correct answers in the spellings an author may store them
CorrectAnswers == << <<"A">>, <<"b", " ">>, <<" ", "a">>, <<"B">> >>

\* a lesson of n exercises
LessonOf(n, prereq, xp, feathers, active) ==
  [exercises |-> [i \in 1..n |->
                    Exercise(CorrectAnswers[((i - 1) % Len(CorrectAnswers)) + 1], 10)],
   prerequisites |-> prereq, xpReward |-> xp, featherReward |-> feathers,
   isActive |-> active]

\* the lessonSchema defaults of xpReward and featherReward
DefaultXpReward == 50
DefaultFeatherReward == 5

\* the catalog of Spec: one published lesson, one withdrawn
LessonCatalog ==
  [l \in Lessons |->
     IF l = "intro" THEN LessonOf(1, {}, 600, 3, TRUE)
     ELSE LessonOf(4, {"intro"}, DefaultXpReward, DefaultFeatherReward, FALSE)]

(***************************************************************************)
(* String helpers: String.prototype.toLowerCase and trim.                  *)
(***************************************************************************)
LowerChar(c) == IF c = "A" THEN "a" ELSE IF c = "B" THEN "b" ELSE c

ToLowerCase(s) == [i \in 1..Len(s) |-> LowerChar(s[i])]

RECURSIVE TrimStart(_)
TrimStart(s) == IF s # <<>> /\ Head(s) = " " THEN TrimStart(Tail(s)) ELSE s

RECURSIVE TrimEnd(_)
TrimEnd(s) ==
  IF s # <<>> /\ s[Len(s)] = " " THEN TrimEnd(SubSeq(s, 1, Len(s) - 1)) ELSE s

Trim(s) == TrimEnd(TrimStart(s))

\* answer.userAnswer.toLowerCase().trim() === exercise.correctAnswer.toLowerCase().trim()
IsCorrect(userAnswer, correctAnswer) ==
  Trim(ToLowerCase(userAnswer)) = Trim(ToLowerCase(correctAnswer))

(***************************************************************************)
(* Arithmetic helpers.                                                     *)
(***************************************************************************)
\* Math.round(num / den) for num >= 0, den > 0: halves round up
RoundDiv(num, den) == (2 * num + den) \div (2 * den)

\* Math.floor(user.xp / 1000) + 1
LevelOf(xp) == (xp \div 1000) + 1

\* the calendar day (getFullYear, getMonth, getDate) of a clock value
DayOf(t) == t \div TicksPerDay

(***************************************************************************)
(* Store documents.                                                        *)
(***************************************************************************)
\* userSchema defaults
NewUser ==
  [xp |-> 0, feathers |-> 0, level |-> 1, streak |-> 0, lastLessonDate |-> NoDate,
   league |-> "Bronze", leagueWeek |-> 0, leaguePoints |-> 0,
   followers |-> <<>>, following |-> <<>>]

\* new Progress({user, lesson, status}) with the progressSchema defaults
NewProgress(u, l, st) ==
  [user |-> u, lesson |-> l, status |-> st, startedAt |-> NoDate,
   completedAt |-> NoDate, score |-> 0, mistakes |-> 0, timeSpent |-> 0,
   exerciseResults |-> <<>>, xpEarned |-> 0, feathersEarned |-> 0, attempts |-> 1]

\* Progress.findUserProgress(userId, lessonId): the matching documents
FindUserProgress(u, l) == {p \in progress : p.user = u /\ p.lesson = l}

\* progressSchema.pre('save'), given whether `status` was modified
PreSave(p, statusModified) ==
  IF ~statusModified THEN p
  ELSE IF p.status = "in-progress" /\ p.startedAt = NoDate
         THEN [p EXCEPT !.startedAt = now]
  ELSE IF p.status = "completed" /\ p.completedAt = NoDate
         THEN [p EXCEPT !.completedAt = now]
  ELSE p

\* the progressSchema validators that a save runs
ProgressValid(p) ==
  /\ p.status \in {"not-started", "in-progress", "completed", "failed"}
  /\ p.score >= 0 /\ p.score <= 100
  /\ p.mistakes >= 0
  /\ p.timeSpent >= 0
  /\ p.xpEarned >= 0
  /\ p.feathersEarned >= 0
  /\ p.attempts >= 1

\* progressSchema.methods.calculateScore
CalculateScore(p) ==
  IF Len(p.exerciseResults) = 0 THEN p
  ELSE [p EXCEPT !.score =
          RoundDiv(100 * Cardinality({i \in 1..Len(p.exerciseResults) :
                                        p.exerciseResults[i].isCorrect}),
                   Len(p.exerciseResults))]

\* progressSchema.methods.addExerciseResult
AddExerciseResult(p, exerciseIndex, isCorrect, userAnswer, correctAnswer, timeSpent, points) ==
  CalculateScore(
    [p EXCEPT !.exerciseResults =
                 Append(@, [exerciseIndex |-> exerciseIndex, isCorrect |-> isCorrect,
                            userAnswer |-> userAnswer, correctAnswer |-> correctAnswer,
                            timeSpent |-> timeSpent,
                            points |-> IF isCorrect THEN points ELSE 0]),
              !.mistakes = IF isCorrect THEN @ ELSE @ + 1,
              !.timeSpent = @ + timeSpent])

\* the request slots of the server: handlers that may be in flight together
Requests == {"r1", "r2"}

\* no handler in flight, none served yet
NoRequests == [r \in Requests |-> [pc |-> "idle", served |-> 0]]

Init ==
  /\ users = [u \in Users |-> NewUser]
  /\ progress = {}
  /\ lessons = LessonCatalog
  /\ now = 0
  /\ resp = [op |-> "none"]
  /\ reqs = NoRequests
  /\ tiers = {}

(***************************************************************************)
(* Responses.  `resp` holds the body the handler sent, under the route     *)
(* (op), the caller (user) and the route parameters and scalar body fields *)
(* (req) of the request it answers.                                        *)
(***************************************************************************)
\* `rewards: null`
Null == [null |-> TRUE]

\* an AppError (or any other exception) surfaced by the error handler
ErrorResponse(op, u, req, code, message) ==
  [op |-> op, user |-> u, req |-> req, success |-> FALSE, code |-> code,
   message |-> message]

\* the error handler's answer to a Mongoose ValidationError (a failed save)
ValidationErrorResponse(op, u, req) ==
  ErrorResponse(op, u, req, 400, "Validation Error")

\* the route parameters of a lesson request
LessonReq(l) == [lesson |-> l]

\* the route parameters and the body of a submit request
SubmitReq(l, answers, timeSpent) ==
  [lesson |-> l, answers |-> answers, timeSpent |-> timeSpent]

(***************************************************************************)
(* POST /api/lessons/:lessonId/start                                       *)
(***************************************************************************)
\* the completed progress records of the lesson's prerequisites
PrerequisiteProgress(u, l) ==
  {p \in progress : /\ p.user = u
                    /\ p.lesson \in lessons[l].prerequisites
                    /\ p.status = "completed"}

StartLesson(u, l) ==
  LET lesson == lessons[l]
      found == FindUserProgress(u, l)
  IN
  /\ UNCHANGED <<users, lessons, now>>
  /\ IF ~lesson.isActive
       THEN /\ resp' = ErrorResponse("start", u, LessonReq(l), 404, "Lesson not found")
            /\ UNCHANGED progress
     ELSE IF /\ Cardinality(lesson.prerequisites) > 0
             /\ Cardinality(PrerequisiteProgress(u, l)) < Cardinality(lesson.prerequisites)
       THEN /\ resp' = ErrorResponse("start", u, LessonReq(l), 400, "You must complete the prerequisites first")
            /\ UNCHANGED progress
     ELSE IF found = {}
       THEN LET saved == PreSave(NewProgress(u, l, "in-progress"), TRUE)
            IN /\ progress' = progress \cup {saved}
               /\ resp' = [op |-> "start", user |-> u, req |-> LessonReq(l), success |-> TRUE, code |-> 200,
                           progress |-> saved]
     ELSE LET old == CHOOSE p \in found : TRUE
          IN IF old.status = "completed"
               THEN /\ resp' = ErrorResponse("start", u, LessonReq(l), 400, "Lesson already completed")
                    /\ UNCHANGED progress
               ELSE LET saved == PreSave([old EXCEPT !.status = "in-progress",
                                                     !.attempts = @ + 1],
                                         old.status # "in-progress")
                    IN /\ progress' = (progress \ {old}) \cup {saved}
                       /\ resp' = [op |-> "start", user |-> u, req |-> LessonReq(l), success |-> TRUE,
                                   code |-> 200, progress |-> saved]

(***************************************************************************)
(* POST /api/lessons/:lessonId/submit                                      *)
(***************************************************************************)
\* the express-validator chain of the route: no validation error
SubmitValid(answers, timeSpent) ==
  /\ \A i \in 1..Len(answers) : /\ answers[i].exerciseIndex >= 0
                                /\ answers[i].userAnswer # <<>>
  /\ timeSpent >= 0

\* errors.array()[0].msg: the message of the first validator that fails
SubmitError(answers, timeSpent) ==
  IF \E i \in 1..Len(answers) : answers[i].exerciseIndex < 0
    THEN "Exercise index must be a non-negative integer"
  ELSE IF \E i \in 1..Len(answers) : answers[i].userAnswer = <<>>
    THEN "User answer is required"
  ELSE "Time spent must be a non-negative integer"

\* lesson.exercises[i] is defined
HasExercise(lesson, i) == i >= 0 /\ i < Len(lesson.exercises)

\* ProcessAnswers with `if (!exercise) continue` in place of the throw
RECURSIVE ProcessAnswersSkipping(_, _, _, _, _)
ProcessAnswersSkipping(lesson, answers, timeSpent, i, acc) ==
  IF i > Len(answers) THEN acc
  ELSE LET answer == answers[i]
       IN IF ~HasExercise(lesson, answer.exerciseIndex)
            THEN ProcessAnswersSkipping(lesson, answers, timeSpent, i + 1, acc)
            ELSE LET exercise == lesson.exercises[answer.exerciseIndex + 1]
                     isCorrect == IsCorrect(answer.userAnswer, exercise.correctAnswer)
                     points == IF isCorrect THEN exercise.points ELSE 0
                 IN ProcessAnswersSkipping(lesson, answers, timeSpent, i + 1,
                      [thrown |-> FALSE,
                       progress |-> AddExerciseResult(acc.progress, answer.exerciseIndex,
                                      isCorrect, answer.userAnswer, exercise.correctAnswer,
                                      timeSpent, exercise.points),
                       totalScore |-> acc.totalScore + points,
                       totalPoints |-> acc.totalPoints + exercise.points,
                       correctAnswers |-> acc.correctAnswers + (IF isCorrect THEN 1 ELSE 0)])

\* the `for (const answer of answers)` loop from position i on; acc carries the
\* in-memory progress document and the three counters, thrown is set by the
\* AppError of an unknown exercise index
RECURSIVE ProcessAnswers(_, _, _, _, _)
ProcessAnswers(lesson, answers, timeSpent, i, acc) ==
  IF i > Len(answers) THEN acc
  ELSE LET answer == answers[i]
       IN IF ~HasExercise(lesson, answer.exerciseIndex)
            THEN [acc EXCEPT !.thrown = TRUE]
            ELSE LET exercise == lesson.exercises[answer.exerciseIndex + 1]
                     isCorrect == IsCorrect(answer.userAnswer, exercise.correctAnswer)
                     points == IF isCorrect THEN exercise.points ELSE 0
                 IN ProcessAnswers(lesson, answers, timeSpent, i + 1,
                      [thrown |-> FALSE,
                       progress |-> AddExerciseResult(acc.progress, answer.exerciseIndex,
                                      isCorrect, answer.userAnswer, exercise.correctAnswer,
                                      timeSpent, exercise.points),
                       totalScore |-> acc.totalScore + points,
                       totalPoints |-> acc.totalPoints + exercise.points,
                       correctAnswers |-> acc.correctAnswers + (IF isCorrect THEN 1 ELSE 0)])

\* FinalScore with Math.floor in place of Math.round
FinalScoreTruncated(correctAnswers, lesson) ==
  (100 * correctAnswers) \div Len(lesson.exercises)

\* Math.round((correctAnswers / lesson.exercises.length) * 100)
FinalScore(correctAnswers, lesson) == RoundDiv(100 * correctAnswers, Len(lesson.exercises))

\* minimum 70% score
IsCompleted(finalScore) == finalScore >= 70

\* Reward with Math.floor in place of Math.round
RewardTruncated(base, finalScore) == (base * finalScore) \div 100

\* Math.round(base * (finalScore / 100))
Reward(base, finalScore) == RoundDiv(base * finalScore, 100)

\* UpdateStreak without the reset of a broken streak
UpdateStreakNoReset(user, today) ==
  LET last == user.lastLessonDate
  IN IF last = NoDate \/ DayOf(today) # DayOf(last)
       THEN [user EXCEPT
               !.streak = IF last # NoDate /\ today - last = TicksPerDay THEN @ + 1 ELSE @,
               !.lastLessonDate = today]
       ELSE user

\* UpdateStreak counting every completion, whatever the day
UpdateStreakEveryCompletion(user, today) ==
  [user EXCEPT !.streak = @ + 1, !.lastLessonDate = today]

\* the streak block of the submit handler, on the user document
UpdateStreak(user, today) ==
  LET last == user.lastLessonDate
  IN IF last = NoDate \/ DayOf(today) # DayOf(last)
       THEN [user EXCEPT
               !.streak = IF last # NoDate /\ today - last = TicksPerDay THEN @ + 1
                          ELSE IF last = NoDate \/ today - last > TicksPerDay THEN 1
                          ELSE @,
               !.lastLessonDate = today]
       ELSE user

\* Update level based on XP
UpdateLevel(user) ==
  IF LevelOf(user.xp) > user.level THEN [user EXCEPT !.level = LevelOf(user.xp)] ELSE user

SubmitLesson(u, l, answers, timeSpent) ==
  LET lesson == lessons[l]
      found == FindUserProgress(u, l)
      isNew == found = {}
      loaded == IF isNew THEN NewProgress(u, l, "in-progress")
                ELSE CHOOSE p \in found : TRUE
      acc == ProcessAnswers(lesson, answers, timeSpent, 1,
               [thrown |-> FALSE, progress |-> loaded, totalScore |-> 0,
                totalPoints |-> 0, correctAnswers |-> 0])
      finalScore == FinalScore(acc.correctAnswers, lesson)
      isCompleted == IsCompleted(finalScore)
      xpReward == Reward(lesson.xpReward, finalScore)
      featherReward == Reward(lesson.featherReward, finalScore)
      graded == IF isCompleted
                  THEN [acc.progress EXCEPT !.status = "completed", !.score = finalScore,
                                            !.xpEarned = xpReward,
                                            !.feathersEarned = featherReward]
                  ELSE [acc.progress EXCEPT !.status = "failed", !.score = finalScore]
      saved == PreSave(graded, isNew \/ graded.status # loaded.status)
      user == UpdateLevel(UpdateStreak([users[u] EXCEPT !.xp = @ + xpReward,
                                                        !.feathers = @ + featherReward],
                                       now))
  IN
  /\ UNCHANGED <<lessons, now>>
  /\ IF ~SubmitValid(answers, timeSpent)
       THEN /\ resp' = ErrorResponse("submit", u, SubmitReq(l, answers, timeSpent), 400,
                                          SubmitError(answers, timeSpent))
            /\ UNCHANGED <<users, progress>>
     ELSE IF ~lesson.isActive
       THEN /\ resp' = ErrorResponse("submit", u, SubmitReq(l, answers, timeSpent), 404, "Lesson not found")
            /\ UNCHANGED <<users, progress>>
     ELSE IF acc.thrown
       THEN /\ resp' = ErrorResponse("submit", u, SubmitReq(l, answers, timeSpent), 400, "Invalid exercise index")
            /\ UNCHANGED <<users, progress>>
     ELSE /\ users' = IF isCompleted THEN [users EXCEPT ![u] = user] ELSE users
          /\ IF ProgressValid(saved)
               THEN /\ progress' = (progress \ found) \cup {saved}
                    /\ resp' = [op |-> "submit", user |-> u, req |-> SubmitReq(l, answers, timeSpent), success |-> TRUE, code |-> 200,
                                score |-> finalScore,
                                correctAnswers |-> acc.correctAnswers,
                                totalExercises |-> Len(lesson.exercises),
                                isCompleted |-> isCompleted,
                                rewards |-> IF isCompleted
                                              THEN [xp |-> saved.xpEarned,
                                                    feathers |-> saved.feathersEarned]
                                              ELSE Null,
                                progress |-> saved]
               ELSE \* progress.save() rejects with a ValidationError
                    /\ UNCHANGED progress
                    /\ resp' = ValidationErrorResponse("submit", u, SubmitReq(l, answers, timeSpent))

(***************************************************************************)
(* DELETE /api/lessons/:lessonId/progress                                  *)
(***************************************************************************)
ResetProgress(u, l) ==
  LET found == FindUserProgress(u, l)
  IN
  /\ UNCHANGED <<users, lessons, now>>
  /\ IF found = {}
       THEN /\ resp' = ErrorResponse("reset", u, LessonReq(l), 404, "No progress found for this lesson")
            /\ UNCHANGED progress
       ELSE /\ progress' = progress \ found
            /\ resp' = [op |-> "reset", user |-> u, req |-> LessonReq(l), success |-> TRUE, code |-> 200]

(***************************************************************************)
(* The server clock.                                                       *)
(***************************************************************************)
Tick ==
  /\ now < MaxTime
  /\ now' = now + 1
  /\ UNCHANGED <<users, progress, lessons, resp, reqs, tiers>>

(***************************************************************************)
(* Requests a client sends.                                                *)
(***************************************************************************)
\* answer strings a client types
AnswerStrings == { <<" ", "A">>, <<"b">> }

Answer(idx, str) == [exerciseIndex |-> idx, userAnswer |-> str]

\* all answer lists of at most n answers with the given indices and strings
RECURSIVE AnswerListsUpTo(_, _, _)
AnswerListsUpTo(n, indices, strings) ==
  IF n = 0 THEN { <<>> }
  ELSE LET shorter == AnswerListsUpTo(n - 1, indices, strings)
       IN shorter \cup {Append(a, Answer(i, s)) : a \in shorter, i \in indices, s \in strings}

\* the answer lists of Spec: those that pass validation, and one with an empty answer
AnswerLists ==
  AnswerListsUpTo(MaxAnswers, 0..MaxIndex, AnswerStrings) \cup { <<Answer(0, <<>>)>> }

TimeSpentInputs == {30}

ResultCount(u, l) ==
  IF FindUserProgress(u, l) = {} THEN 0
  ELSE Len((CHOOSE p \in FindUserProgress(u, l) : TRUE).exerciseResults)

Attempts(u, l) ==
  IF FindUserProgress(u, l) = {} THEN 0
  ELSE (CHOOSE p \in FindUserProgress(u, l) : TRUE).attempts

Start ==
  \E u \in Learners, l \in Lessons :
    /\ Attempts(u, l) < MaxAttempts
    /\ StartLesson(u, l)
    /\ UNCHANGED <<reqs, tiers>>

\* (a withdrawn lesson answers every list alike: it is sent short lists only)
Submit ==
  \E u \in Learners, l \in Lessons, answers \in AnswerLists, timeSpent \in TimeSpentInputs :
    /\ users[u].xp <= MaxXp
    /\ ResultCount(u, l) + Len(answers) <= MaxResults
    /\ lessons[l].isActive \/ Len(answers) <= 1
    /\ SubmitLesson(u, l, answers, timeSpent)
    /\ UNCHANGED <<reqs, tiers>>

Reset ==
  \E u \in Learners, l \in Lessons :
    ResetProgress(u, l) /\ UNCHANGED <<reqs, tiers>>

Next == Tick \/ Start \/ Submit \/ Reset

Spec == Init /\ [][Next]_vars

(***************************************************************************)
(* One submission to a fresh store, over a wide range of answer lists and  *)
(* lesson documents.                                                       *)
(***************************************************************************)
AnswerListsOnce == AnswerListsUpTo(MaxAnswersOnce, 0..MaxIndexOnce, AnswerStrings)

\* XP a user may hold before the submission
XpSamples == {0, 980}

\* the catalog with "intro" replaced by a lesson of 1..MaxExercises exercises
\* that carries the default rewards
OnceCatalogs ==
  { [LessonCatalog EXCEPT
       !["intro"] = LessonOf(n, {}, DefaultXpReward, DefaultFeatherReward, TRUE)]
    : n \in 1..MaxExercises }

InitOnce ==
  /\ \E x \in XpSamples :
       users = [u \in Users |-> [NewUser EXCEPT !.xp = x, !.level = LevelOf(x)]]
  /\ progress = {}
  /\ lessons \in OnceCatalogs
  /\ now = 0
  /\ resp = [op |-> "none"]
  /\ reqs = NoRequests
  /\ tiers = {}

SubmitOnce ==
  /\ resp.op = "none"
  /\ \E u \in Learners, l \in Lessons, answers \in AnswerListsOnce,
        timeSpent \in TimeSpentInputs :
       SubmitLesson(u, l, answers, timeSpent) /\ UNCHANGED <<reqs, tiers>>

NextOnce == SubmitOnce

SpecSubmitOnce == InitOnce /\ [][NextOnce]_vars

(***************************************************************************)
(* POST /api/leagues/update-points                                         *)
(***************************************************************************)
Leagues == <<"Bronze", "Silver", "Gold", "Platinum", "Diamond", "Master">>

\* leagueThresholds, in the order Object.entries visits it
LeagueThresholds ==
  << [league |-> "Bronze", threshold |-> 1000],
     [league |-> "Silver", threshold |-> 2500],
     [league |-> "Gold", threshold |-> 5000],
     [league |-> "Platinum", threshold |-> 10000],
     [league |-> "Diamond", threshold |-> 20000] >>

\* the `for (const [league, threshold] of ...)` loop from entry i on
RECURSIVE PromotionScan(_, _, _)
PromotionScan(user, i, acc) ==
  IF i > Len(LeagueThresholds) THEN acc
  ELSE LET e == LeagueThresholds[i]
       IN PromotionScan(user, i + 1,
            IF user.leaguePoints >= e.threshold /\ user.league # e.league
              THEN [promoted |-> TRUE, newLeague |-> e.league]
              ELSE acc)

\* leagueInfo of GET /current: the minimum points of each league
LeagueInfo ==
  [Bronze |-> [minPoints |-> 0], Silver |-> [minPoints |-> 1000],
   Gold |-> [minPoints |-> 2500], Platinum |-> [minPoints |-> 5000],
   Diamond |-> [minPoints |-> 10000], Master |-> [minPoints |-> 20000]]

\* the route's own check: !points || points < 0
InvalidPoints(points) == points = 0 \/ points < 0

UpdatePoints(u, points) ==
  LET req == [points |-> points]
      old == users[u]
      added == [old EXCEPT !.leaguePoints = @ + points]
      scan == PromotionScan(added, 1, [promoted |-> FALSE, newLeague |-> added.league])
      user == IF scan.promoted
                THEN [added EXCEPT !.league = scan.newLeague, !.leagueWeek = 1]
                ELSE [added EXCEPT !.leagueWeek = @ + 1]
  IN
  /\ UNCHANGED <<progress, lessons, now>>
  /\ IF InvalidPoints(points)
       THEN /\ resp' = ErrorResponse("update-points", u, req, 400, "Invalid points value")
            /\ UNCHANGED users
       ELSE /\ users' = [users EXCEPT ![u] = user]
            /\ resp' = [op |-> "update-points", user |-> u, req |-> req, success |-> TRUE,
                        code |-> 200, oldLeague |-> old.league, newLeague |-> user.league,
                        oldPoints |-> old.leaguePoints, newPoints |-> user.leaguePoints,
                        pointsGained |-> points, promoted |-> scan.promoted,
                        leagueWeek |-> user.leagueWeek]

(***************************************************************************)
(* GET /api/leagues/leaderboard                                            *)
(***************************************************************************)
\* the documents User.find(filter) matches; an absent league filter is ""
MatchesFilter(v, league) == league = "" \/ users[v].league = league

\* SortsBefore on league points alone
SortsBeforeByPoints(a, b) == users[a].leaguePoints > users[b].leaguePoints

\* .sort({ leaguePoints: -1, xp: -1 }): a sorts strictly before b
SortsBefore(a, b) ==
  \/ users[a].leaguePoints > users[b].leaguePoints
  \/ /\ users[a].leaguePoints = users[b].leaguePoints
     /\ users[a].xp > users[b].xp

\* the orders the sort may return (documents with equal keys come in any order)
SortedOrders(S) ==
  {f \in [1..Cardinality(S) -> S] :
     /\ \A x \in S : \E i \in DOMAIN f : f[i] = x
     /\ \A i, j \in DOMAIN f : i < j => ~SortsBefore(f[j], f[i])}

\* .limit(limit).skip(skip)
Page(order, limit, skip) ==
  SubSeq(order, skip + 1, IF skip + limit < Len(order) THEN skip + limit ELSE Len(order))

\* the countDocuments query of the user's rank
UserRankCount(u, league) ==
  Cardinality({v \in Users :
     /\ MatchesFilter(v, league)
     /\ \/ users[v].leaguePoints > users[u].leaguePoints
        \/ /\ users[v].leaguePoints = users[u].leaguePoints
           /\ users[v].xp > users[u].xp})

\* .select('name profileUri level xp feathers streak league leaguePoints')
BoardEntry(v) ==
  [id |-> v, level |-> users[v].level, xp |-> users[v].xp, feathers |-> users[v].feathers,
   streak |-> users[v].streak, league |-> users[v].league,
   leaguePoints |-> users[v].leaguePoints]

Leaderboard(u, league, limit, page) ==
  LET skip == (page - 1) * limit
      matching == {v \in Users : MatchesFilter(v, league)}
  IN
  /\ UNCHANGED <<users, progress, lessons, now>>
  /\ \E order \in SortedOrders(matching) :
       LET shown == Page(order, limit, skip)
       IN resp' = [op |-> "leaderboard", user |-> u,
                   req |-> [league |-> league, limit |-> limit, page |-> page],
                   success |-> TRUE, code |-> 200,
                   leaderboard |-> [i \in 1..Len(shown) |-> BoardEntry(shown[i])],
                   userRank |-> UserRankCount(u, league) + 1,
                   total |-> Cardinality(matching),
                   pages |-> (Cardinality(matching) + limit - 1) \div limit]

(***************************************************************************)
(* The league ledger of one user climbing the ladder.                      *)
(***************************************************************************)
\* league points are no longer added once a user's total exceeds this
MaxPoints == 20000
\* league points are no longer added once a user's week counter exceeds this
MaxWeek == 3

PointInputs == {0 - 500, 0, 500, 1000, 1500, 2500, 5000, 10000}

UpdateLeague ==
  \E u \in Learners, points \in PointInputs :
    /\ users[u].leaguePoints <= MaxPoints
    /\ users[u].leagueWeek <= MaxWeek
    /\ UpdatePoints(u, points)
    /\ UNCHANGED <<reqs, tiers>>

NextLeague == UpdateLeague

SpecLeague == Init /\ [][NextLeague]_vars

(***************************************************************************)
(* The leaderboard over all users.                                         *)
(***************************************************************************)
\* XP the users hold when the leaderboard is first read
BoardXp == {500, 800}
\* league points are no longer added once a user's total reaches this
MaxBoardPoints == 1000

InitBoard ==
  /\ users \in [Users -> {[NewUser EXCEPT !.xp = x] : x \in BoardXp}]
  /\ progress = {}
  /\ lessons = LessonCatalog
  /\ now = 0
  /\ resp = [op |-> "none"]
  /\ reqs = NoRequests
  /\ tiers = {}

EarnPoints ==
  \E u \in Users, points \in {1000, 2500} :
    /\ users[u].leaguePoints < MaxBoardPoints
    /\ UpdatePoints(u, points)
    /\ UNCHANGED <<reqs, tiers>>

ViewLeaderboard ==
  \E u \in Users, league \in {"", "Bronze", "Silver"}, limit \in {2, 50}, page \in {1, 2} :
    Leaderboard(u, league, limit, page) /\ UNCHANGED <<reqs, tiers>>

NextBoard == EarnPoints \/ ViewLeaderboard

SpecBoard == InitBoard /\ [][NextBoard]_vars

(***************************************************************************)
(* Quests: GET /api/quests/daily, GET /api/quests/weekly and               *)
(* POST /api/quests/claim/:questId                                         *)
(***************************************************************************)
Min(a, b) == IF a < b THEN a ELSE b

\* questTypes of the claim route: the reward of each quest id
QuestTypes ==
  [complete_lessons |-> [xp |-> 50, feathers |-> 5],
   maintain_streak |-> [xp |-> 30, feathers |-> 3],
   perfect_score |-> [xp |-> 100, feathers |-> 10],
   practice_time |-> [xp |-> 40, feathers |-> 4],
   complete_lessons_week |-> [xp |-> 200, feathers |-> 20],
   maintain_streak_week |-> [xp |-> 300, feathers |-> 30],
   league_progress |-> [xp |-> 250, feathers |-> 25],
   perfect_scores_week |-> [xp |-> 400, feathers |-> 40]]

\* the user's completed records with completedAt between todayStart and todayEnd
TodayProgress(u) ==
  {p \in progress : /\ p.user = u /\ p.status = "completed"
                    /\ p.completedAt # NoDate
                    /\ DayOf(p.completedAt) = DayOf(now)}

\* weekStart: midnight of the last Sunday (day 0 of the clock is a Sunday)
WeekStart == (DayOf(now) - (DayOf(now) % 7)) * TicksPerDay

\* the user's completed records with completedAt >= weekStart
WeekProgress(u) ==
  {p \in progress : /\ p.user = u /\ p.status = "completed"
                    /\ p.completedAt # NoDate
                    /\ p.completedAt >= WeekStart}

PerfectScores(S) == Cardinality({p \in S : p.score = 100})

\* reduce((total, p) => total + p.timeSpent, 0), in seconds
RECURSIVE TotalTimeSpent(_)
TotalTimeSpent(S) ==
  IF S = {} THEN 0
  ELSE LET p == CHOOSE q \in S : TRUE IN p.timeSpent + TotalTimeSpent(S \ {p})

Quest(target, progressMade, completed) ==
  [target |-> target, progress |-> progressMade, completed |-> completed]

\* DailyQuests with perfect_score completed only above its target
DailyQuestsAboveTarget(u) ==
  LET today == TodayProgress(u)
  IN [complete_lessons |-> Quest(3, Min(Cardinality(today), 3), Cardinality(today) >= 3),
      maintain_streak |-> Quest(1, IF users[u].streak > 0 THEN 1 ELSE 0, users[u].streak > 0),
      perfect_score |-> Quest(1, Min(PerfectScores(today), 1), PerfectScores(today) > 1),
      practice_time |-> Quest(900, Min(TotalTimeSpent(today), 900),
                              TotalTimeSpent(today) >= 900)]

\* dailyQuests after the progress update, by quest id; practice_time counts
\* seconds here (target 15 minutes = 900 seconds)
DailyQuests(u) ==
  LET today == TodayProgress(u)
  IN [complete_lessons |-> Quest(3, Min(Cardinality(today), 3), Cardinality(today) >= 3),
      maintain_streak |-> Quest(1, IF users[u].streak > 0 THEN 1 ELSE 0, users[u].streak > 0),
      perfect_score |-> Quest(1, Min(PerfectScores(today), 1), PerfectScores(today) >= 1),
      practice_time |-> Quest(900, Min(TotalTimeSpent(today), 900),
                              TotalTimeSpent(today) >= 900)]

\* weeklyQuests after the progress update, by quest id
WeeklyQuests(u) ==
  LET week == WeekProgress(u)
      points == users[u].leaguePoints % 1000
  IN [complete_lessons_week |->
        Quest(15, Min(Cardinality(week), 15), Cardinality(week) >= 15),
      maintain_streak_week |-> Quest(7, Min(users[u].streak, 7), users[u].streak >= 7),
      league_progress |-> Quest(500, Min(points, 500), points >= 500),
      perfect_scores_week |->
        Quest(5, Min(PerfectScores(week), 5), PerfectScores(week) >= 5)]

QuestList(u, op, quests) ==
  /\ UNCHANGED <<users, progress, lessons, now>>
  /\ resp' = [op |-> op, user |-> u, req |-> [list |-> op], success |-> TRUE, code |-> 200,
              quests |-> quests,
              completedCount |-> Cardinality({q \in DOMAIN quests : quests[q].completed}),
              totalQuests |-> Cardinality(DOMAIN quests)]

\* property names every object literal inherits from Object.prototype: for
\* these questTypes[questId] is a function, not undefined
ObjectPrototypeKeys == {"constructor", "toString", "valueOf", "hasOwnProperty"}

\* `const isCompleted = true; // Placeholder`
QuestIsCompleted(u, questId) == TRUE

\* `const alreadyClaimed = false; // Placeholder`
QuestAlreadyClaimed(u, questId) == FALSE

ClaimQuest(u, questId) ==
  LET req == [quest |-> questId]
  IN
  /\ UNCHANGED <<progress, lessons, now>>
  /\ IF questId \notin DOMAIN QuestTypes \cup ObjectPrototypeKeys
       THEN /\ resp' = ErrorResponse("claim", u, req, 404, "Quest not found")
            /\ UNCHANGED users
     ELSE IF ~QuestIsCompleted(u, questId)
       THEN /\ resp' = ErrorResponse("claim", u, req, 400, "Quest not completed yet")
            /\ UNCHANGED users
     ELSE IF QuestAlreadyClaimed(u, questId)
       THEN /\ resp' = ErrorResponse("claim", u, req, 400, "Quest reward already claimed")
            /\ UNCHANGED users
     ELSE IF questId \in ObjectPrototypeKeys
       \* quest.reward is undefined: the destructuring throws a TypeError
       THEN /\ resp' = ErrorResponse("claim", u, req, 500,
                                     "Cannot destructure property 'xp' of 'quest.reward'")
            /\ UNCHANGED users
     ELSE LET reward == QuestTypes[questId]
              user == [users[u] EXCEPT !.xp = @ + reward.xp,
                                       !.feathers = @ + reward.feathers]
          IN /\ users' = [users EXCEPT ![u] = user]
             /\ resp' = [op |-> "claim", user |-> u, req |-> req, success |-> TRUE,
                         code |-> 200, rewards |-> reward, newXp |-> user.xp,
                         newFeathers |-> user.feathers]

(***************************************************************************)
(* GET /api/quests/achievements                                            *)
(***************************************************************************)
\* Progress.getUserStats: the $group over the user's records (the fields the
\* achievements read; `averageScore` is not among the fields it returns)
GetUserStats(u) ==
  LET S == {p \in progress : p.user = u}
  IN [totalLessons |-> Cardinality(S),
      completedLessons |-> Cardinality({p \in S : p.status = "completed"}),
      totalTimeSpent |-> TotalTimeSpent(S)]

Achievement(target, progressMade, unlocked) ==
  [target |-> target, progress |-> progressMade, unlocked |-> unlocked]

\* the achievements array, by achievement id
Achievements(u) ==
  LET user == users[u]
      stats == GetUserStats(u)
      promoted == user.league # "Bronze"
  IN [first_lesson |-> Achievement(1, Min(stats.completedLessons, 1),
                                   stats.completedLessons > 0),
      lesson_master |-> Achievement(50, Min(stats.completedLessons, 50),
                                    stats.completedLessons >= 50),
      streak_7 |-> Achievement(7, Min(user.streak, 7), user.streak >= 7),
      streak_30 |-> Achievement(30, Min(user.streak, 30), user.streak >= 30),
      \* stats.averageScore is undefined: `undefined >= 100` is false
      perfect_score |-> Achievement(1, 0, FALSE),
      league_promotion |-> Achievement(1, IF promoted THEN 1 ELSE 0, promoted),
      social_learner |-> Achievement(10, Min(Len(user.following), 10),
                                     Len(user.following) >= 10),
      time_invested |-> Achievement(600, Min(stats.totalTimeSpent, 600),
                                    stats.totalTimeSpent >= 600)]

AchievementList(u) ==
  LET achievements == Achievements(u)
      unlockedCount == Cardinality({a \in DOMAIN achievements : achievements[a].unlocked})
      totalAchievements == Cardinality(DOMAIN achievements)
  IN
  /\ UNCHANGED <<users, progress, lessons, now>>
  /\ resp' = [op |-> "achievements", user |-> u, req |-> [list |-> "achievements"],
              success |-> TRUE, code |-> 200, achievements |-> achievements,
              unlockedCount |-> unlockedCount, totalAchievements |-> totalAchievements,
              completionPercentage |-> RoundDiv(100 * unlockedCount, totalAchievements)]

(***************************************************************************)
(* Lessons and quests of one user.                                         *)
(***************************************************************************)
\* quest rewards are no longer claimed once a user's XP exceeds this
MaxQuestXp == 700

\* quest ids a client sends (the last two are not quests)
QuestInputs ==
  {"maintain_streak", "perfect_score", "perfect_scores_week", "no_such_quest", "toString"}

Claim ==
  \E u \in Learners, questId \in QuestInputs :
    /\ users[u].xp <= MaxQuestXp
    /\ ClaimQuest(u, questId)
    /\ UNCHANGED <<reqs, tiers>>

ViewDaily ==
  \E u \in Learners : QuestList(u, "daily", DailyQuests(u)) /\ UNCHANGED <<reqs, tiers>>

ViewWeekly ==
  \E u \in Learners : QuestList(u, "weekly", WeeklyQuests(u)) /\ UNCHANGED <<reqs, tiers>>

ViewAchievements ==
  \E u \in Learners : AchievementList(u) /\ UNCHANGED <<reqs, tiers>>

NextQuest == Claim \/ Submit \/ ViewDaily \/ ViewWeekly \/ ViewAchievements

SpecQuest == Init /\ [][NextQuest]_vars

(***************************************************************************)
(* League tiers: POST /api/leagues, PATCH /api/leagues/:id and             *)
(* DELETE /api/leagues/:id (administrators).  A tier document is           *)
(* [id, level, minPoints, maxPoints]; name and description play no part.   *)
(***************************************************************************)
\* the most tier documents the collection holds
MaxTiers == 2

TierIds == 1..MaxTiers

\* an _id no document of the collection has
FreshTierId == CHOOSE i \in TierIds : \A t \in tiers : t.id # i

\* leagueValidation: no validation error
LeagueValid(body) ==
  /\ body.level >= 1
  /\ body.minPoints >= 0
  /\ body.maxPoints >= 0
  /\ ~(body.maxPoints <= body.minPoints)

\* maxPoints validator that takes a query for a document
MaxPointsValidatorAnyThis(this, value) ==
  "minPoints" \notin DOMAIN this \/ value > this.minPoints

\* the schema's maxPoints validator, `value > this.minPoints`: `this` is the
\* document on save, and the query (no minPoints property) in an update validator
MaxPointsValidator(this, value) ==
  "minPoints" \in DOMAIN this /\ value > this.minPoints

\* the pre('save') hook's findOne: the other tiers its $or condition selects
OverlappingLeague(doc) ==
  {t \in tiers : /\ t.id # doc.id
                 /\ \/ t.minPoints <= doc.maxPoints /\ t.maxPoints > doc.minPoints
                    \/ t.minPoints < doc.maxPoints /\ t.maxPoints >= doc.minPoints}

LeagueResponse(op, role, req, success, code, message) ==
  [op |-> op, user |-> role, req |-> req, success |-> success, code |-> code,
   message |-> message]

CreateLeague(role, body) ==
  LET doc == [id |-> FreshTierId, level |-> body.level, minPoints |-> body.minPoints,
              maxPoints |-> body.maxPoints]
      answer(success, code, message) ==
        LeagueResponse("createLeague", role, body, success, code, message)
  IN
  /\ UNCHANGED <<users, progress, lessons, now, reqs>>
  /\ IF role # "admin"
       THEN resp' = answer(FALSE, 403, "Forbidden") /\ UNCHANGED tiers
     ELSE IF ~LeagueValid(body)
       THEN resp' = answer(FALSE, 400, "errors") /\ UNCHANGED tiers
     ELSE IF \E t \in tiers : t.level = body.level
       THEN resp' = answer(FALSE, 400, "League already exists") /\ UNCHANGED tiers
     ELSE IF ~MaxPointsValidator(doc, doc.maxPoints)
       THEN resp' = answer(FALSE, 500, "Failed to create league") /\ UNCHANGED tiers
     ELSE IF OverlappingLeague(doc) # {}
       THEN resp' = answer(FALSE, 500, "Failed to create league") /\ UNCHANGED tiers
     ELSE /\ tiers' = tiers \cup {doc}
          /\ resp' = answer(TRUE, 201, "League created successfully")

PatchLeague(role, id, body) ==
  LET req == [id |-> id, level |-> body.level, minPoints |-> body.minPoints,
              maxPoints |-> body.maxPoints]
      query == [op |-> "findOneAndUpdate", id |-> id]
      answer(success, code, message) ==
        LeagueResponse("patchLeague", role, req, success, code, message)
  IN
  /\ UNCHANGED <<users, progress, lessons, now, reqs>>
  /\ IF role # "admin"
       THEN resp' = answer(FALSE, 403, "Forbidden") /\ UNCHANGED tiers
     ELSE IF ~LeagueValid(body)
       THEN resp' = answer(FALSE, 400, "errors") /\ UNCHANGED tiers
     ELSE IF \E t \in tiers : t.level = body.level /\ t.id # id
       THEN resp' = answer(FALSE, 400, "League already exists") /\ UNCHANGED tiers
     \* runValidators: the update validators of the $set paths, `this` the query
     ELSE IF ~MaxPointsValidator(query, body.maxPoints)
       THEN resp' = answer(FALSE, 500, "Failed to update league") /\ UNCHANGED tiers
     ELSE IF \A t \in tiers : t.id # id
       THEN resp' = answer(FALSE, 404, "League not found") /\ UNCHANGED tiers
     ELSE /\ tiers' = {IF t.id = id
                         THEN [t EXCEPT !.level = body.level, !.minPoints = body.minPoints,
                                        !.maxPoints = body.maxPoints]
                         ELSE t : t \in tiers}
          /\ resp' = answer(TRUE, 200, "League updated successfully")

DeleteLeague(role, id) ==
  LET answer(success, code, message) ==
        LeagueResponse("deleteLeague", role, [id |-> id], success, code, message)
  IN
  /\ UNCHANGED <<users, progress, lessons, now, reqs>>
  /\ IF role # "admin"
       THEN resp' = answer(FALSE, 403, "Forbidden") /\ UNCHANGED tiers
     ELSE IF \A t \in tiers : t.id # id
       THEN resp' = answer(FALSE, 404, "League not found") /\ UNCHANGED tiers
     ELSE /\ tiers' = {t \in tiers : t.id # id}
          /\ resp' = answer(TRUE, 200, "League deleted successfully")

(***************************************************************************)
(* The tier configuration under the administrators' requests.              *)
(***************************************************************************)
Roles == {"admin", "user"}

\* point values and levels of the request bodies
TierPoints == {0, 10, 20, 30}

TierLevels == 1..MaxTiers

LeagueBodies ==
  [level : TierLevels, minPoints : TierPoints, maxPoints : TierPoints]

CreateTier ==
  /\ Cardinality(tiers) < MaxTiers
  /\ \E role \in Roles, body \in LeagueBodies : CreateLeague(role, body)

PatchTier ==
  \E role \in Roles, id \in TierIds, body \in LeagueBodies : PatchLeague(role, id, body)

DeleteTier ==
  \E role \in Roles, id \in TierIds : DeleteLeague(role, id)

NextTiers == CreateTier \/ PatchTier \/ DeleteTier

SpecTiers == Init /\ [][NextTiers]_vars

(***************************************************************************)
(* Requests in progress.  A handler runs up to its first `await` of a      *)
(* store call, and from one store call to the next, without interruption;  *)
(* between two store calls the other request may run.  reqs[r] holds the   *)
(* position (pc) and the local variables of the request in slot r.         *)
(***************************************************************************)
\* the most requests one slot serves
MaxServed == 2

\* slot r is free to take a request
Idle(r) == reqs[r].pc = "idle" /\ reqs[r].served < MaxServed

\* slot r after its request was answered
Served(r) == [pc |-> "idle", served |-> reqs[r].served + 1]

\* document.save() of a loaded document: the update $sets the paths whose value
\* differs from the loaded one, the stored document keeps its other paths
SaveModified(stored, loaded, doc) ==
  [f \in DOMAIN stored |-> IF doc[f] # loaded[f] THEN doc[f] ELSE stored[f]]

(***************************************************************************)
(* POST /api/leagues/update-points, store call by store call               *)
(***************************************************************************)
\* up to `await User.findById(req.user._id)`
PointsFindUser(r, u, points) ==
  /\ Idle(r)
  /\ UNCHANGED <<users, progress, lessons, now, tiers>>
  /\ IF InvalidPoints(points)
       THEN /\ resp' = ErrorResponse("update-points", u, [points |-> points], 400,
                                     "Invalid points value")
            /\ reqs' = [reqs EXCEPT ![r] = Served(r)]
       ELSE /\ reqs' = [reqs EXCEPT ![r] = [pc |-> "points-save", served |-> @.served,
                                            user |-> u, points |-> points,
                                            loaded |-> users[u]]]
            /\ UNCHANGED resp

\* from the loaded user to `await user.save()` and the response
PointsSaveUser(r) ==
  LET u == reqs[r].user
      points == reqs[r].points
      old == reqs[r].loaded
      added == [old EXCEPT !.leaguePoints = @ + points]
      scan == PromotionScan(added, 1, [promoted |-> FALSE, newLeague |-> added.league])
      user == IF scan.promoted
                THEN [added EXCEPT !.league = scan.newLeague, !.leagueWeek = 1]
                ELSE [added EXCEPT !.leagueWeek = @ + 1]
  IN
  /\ reqs[r].pc = "points-save"
  /\ UNCHANGED <<progress, lessons, now, tiers>>
  /\ users' = [users EXCEPT ![u] = SaveModified(users[u], old, user)]
  /\ resp' = [op |-> "update-points", user |-> u, req |-> [points |-> points],
              success |-> TRUE, code |-> 200, oldLeague |-> old.league,
              newLeague |-> user.league, oldPoints |-> old.leaguePoints,
              newPoints |-> user.leaguePoints, pointsGained |-> points,
              promoted |-> scan.promoted, leagueWeek |-> user.leagueWeek]
  /\ reqs' = [reqs EXCEPT ![r] = Served(r)]

(***************************************************************************)
(* Two update-points requests of one user at a time.                       *)
(***************************************************************************)
RacePointInputs == {0, 300, 800}

PointsFind ==
  \E r \in Requests, u \in Learners, points \in RacePointInputs : PointsFindUser(r, u, points)

PointsSave == \E r \in Requests : PointsSaveUser(r)

NextRacePoints == PointsFind \/ PointsSave

SpecRacePoints == Init /\ [][NextRacePoints]_vars

(***************************************************************************)
(* POST /api/users/follow/:userId, store call by store call                *)
(***************************************************************************)
\* array.includes(x)
Includes(array, x) == \E i \in DOMAIN array : array[i] = x

\* the request's answer
FollowResponse(u, userId, success, code, message) ==
  [op |-> "follow", user |-> u, req |-> [userId |-> userId], success |-> success,
   code |-> code, message |-> message]

\* up to `await User.findById(userId)`
FollowFindTarget(r, u, userId) ==
  /\ Idle(r)
  /\ UNCHANGED <<users, progress, lessons, now, tiers>>
  /\ IF userId = u
       THEN /\ resp' = FollowResponse(u, userId, FALSE, 400, "You cannot follow yourself")
            /\ reqs' = [reqs EXCEPT ![r] = Served(r)]
       ELSE /\ reqs' = [reqs EXCEPT ![r] = [pc |-> "follow-find-current", served |-> @.served,
                                            user |-> u, userId |-> userId,
                                            found |-> userId \in DOMAIN users]]
            /\ UNCHANGED resp

\* from the loaded target to `await User.findById(req.user._id)`
FollowFindCurrent(r) ==
  LET u == reqs[r].user
      userId == reqs[r].userId
  IN
  /\ reqs[r].pc = "follow-find-current"
  /\ UNCHANGED <<users, progress, lessons, now, tiers>>
  /\ IF ~reqs[r].found
       \* thrown before the second findById is reached
       THEN /\ resp' = FollowResponse(u, userId, FALSE, 404, "User not found")
            /\ reqs' = [reqs EXCEPT ![r] = Served(r)]
       ELSE /\ reqs' = [reqs EXCEPT ![r] = [pc |-> "follow-check", served |-> @.served,
                                            user |-> u, userId |-> userId,
                                            following |-> users[u].following]]
            /\ UNCHANGED resp

\* from the loaded current user to `await currentUser.save()`: the pushed id
\* is saved with $push onto the stored array
FollowSaveCurrent(r) ==
  LET u == reqs[r].user
      userId == reqs[r].userId
  IN
  /\ reqs[r].pc = "follow-check"
  /\ UNCHANGED <<progress, lessons, now, tiers>>
  /\ IF Includes(reqs[r].following, userId)
       THEN /\ resp' = FollowResponse(u, userId, FALSE, 400,
                                      "You are already following this user")
            /\ reqs' = [reqs EXCEPT ![r] = Served(r)]
            /\ UNCHANGED users
       ELSE /\ users' = [users EXCEPT ![u].following = Append(@, userId)]
            /\ reqs' = [reqs EXCEPT ![r] = [pc |-> "follow-save-target", served |-> @.served,
                                            user |-> u, userId |-> userId]]
            /\ UNCHANGED resp

\* `userToFollow.followers.push(req.user._id); await userToFollow.save()` and
\* the response
FollowSaveTarget(r) ==
  LET u == reqs[r].user
      userId == reqs[r].userId
  IN
  /\ reqs[r].pc = "follow-save-target"
  /\ UNCHANGED <<progress, lessons, now, tiers>>
  /\ users' = [users EXCEPT ![userId].followers = Append(@, u)]
  /\ resp' = FollowResponse(u, userId, TRUE, 200, "User followed successfully")
  /\ reqs' = [reqs EXCEPT ![r] = Served(r)]

(***************************************************************************)
(* Two follow requests at a time.                                          *)
(***************************************************************************)
\* ids a client puts in the route (the last is no user's id)
FollowTargets == {"u1", "u2", "nobody"}

FollowFind ==
  \E r \in Requests, u \in Learners, userId \in FollowTargets : FollowFindTarget(r, u, userId)

FollowLoad == \E r \in Requests : FollowFindCurrent(r)

FollowPush == \E r \in Requests : FollowSaveCurrent(r)

FollowBack == \E r \in Requests : FollowSaveTarget(r)

NextRaceFollow == FollowFind \/ FollowLoad \/ FollowPush \/ FollowBack

SpecRaceFollow == Init /\ [][NextRaceFollow]_vars

(***************************************************************************)
(* The lesson routes and POST /api/progress/sync, store call by store call *)
(***************************************************************************)
\* progress.save() of a loaded document: modified paths are $set, the results
\* pushed since the load are $push-ed onto the stored array
MergeProgress(stored, loaded, doc) ==
  [SaveModified(stored, loaded, doc) EXCEPT
     !.exerciseResults =
        stored.exerciseResults \o SubSeq(doc.exerciseResults,
                                         Len(loaded.exerciseResults) + 1,
                                         Len(doc.exerciseResults))]

\* insertOne without the unique index on {user, lesson}
InsertProgressUnchecked(doc) == progress \cup {doc}

\* insertOne of a new progress document: the unique index on {user, lesson}
\* rejects it (the collection is left as it is) when the pair has a document
InsertProgress(doc) ==
  IF FindUserProgress(doc.user, doc.lesson) = {} THEN progress \cup {doc} ELSE progress

\* progress.save(): an insert for a new document, an update of the stored one
\* otherwise; `failed` is the store's error, if any
SaveProgress(isNew, loaded, doc) ==
  LET found == FindUserProgress(doc.user, doc.lesson)
      saved == PreSave(doc, isNew \/ doc.status # loaded.status)
  IN IF ~ProgressValid(saved)
       THEN [failed |-> "Validation Error", progress |-> progress, saved |-> saved]
     ELSE IF isNew
       THEN IF InsertProgress(saved) = progress
              \* E11000 duplicate key error
              THEN [failed |-> "Duplicate Field Error", progress |-> progress,
                    saved |-> saved]
              ELSE [failed |-> "", progress |-> InsertProgress(saved), saved |-> saved]
     ELSE IF found = {}
       THEN [failed |-> "No document found", progress |-> progress, saved |-> saved]
     ELSE LET stored == CHOOSE p \in found : TRUE
          IN [failed |-> "", saved |-> saved,
              progress |-> (progress \ {stored}) \cup {MergeProgress(stored, loaded, saved)}]

\* the slot's locals while a request is in progress
InFlight(r, pc, locals) ==
  [reqs EXCEPT ![r] = [pc |-> pc, served |-> reqs[r].served, local |-> locals]]

\* POST /:lessonId/start up to `await Progress.findUserProgress`
StartFindProgress(r, u, l) ==
  LET lesson == lessons[l]
      found == FindUserProgress(u, l)
      fail(code, message) ==
        /\ resp' = ErrorResponse("start", u, LessonReq(l), code, message)
        /\ reqs' = [reqs EXCEPT ![r] = Served(r)]
  IN
  /\ Idle(r)
  /\ UNCHANGED <<users, progress, lessons, now, tiers>>
  /\ IF ~lesson.isActive
       THEN fail(404, "Lesson not found")
     ELSE IF /\ Cardinality(lesson.prerequisites) > 0
             /\ Cardinality(PrerequisiteProgress(u, l)) < Cardinality(lesson.prerequisites)
       THEN fail(400, "You must complete the prerequisites first")
     ELSE IF found = {}
       THEN /\ reqs' = InFlight(r, "start-save",
                         [user |-> u, lesson |-> l, isNew |-> TRUE,
                          loaded |-> NewProgress(u, l, "in-progress"),
                          doc |-> NewProgress(u, l, "in-progress")])
            /\ UNCHANGED resp
     ELSE LET old == CHOOSE p \in found : TRUE
          IN IF old.status = "completed"
               THEN fail(400, "Lesson already completed")
               ELSE /\ reqs' = InFlight(r, "start-save",
                                 [user |-> u, lesson |-> l, isNew |-> FALSE, loaded |-> old,
                                  doc |-> [old EXCEPT !.status = "in-progress",
                                                      !.attempts = @ + 1]])
                    /\ UNCHANGED resp

\* POST /:lessonId/start: `await progress.save()` and the response
StartSaveProgress(r) ==
  LET v == reqs[r].local
      save == SaveProgress(v.isNew, v.loaded, v.doc)
  IN
  /\ reqs[r].pc = "start-save"
  /\ UNCHANGED <<users, lessons, now, tiers>>
  /\ progress' = save.progress
  /\ resp' = IF save.failed # ""
               THEN ErrorResponse("start", v.user, LessonReq(v.lesson), 400, save.failed)
               ELSE [op |-> "start", user |-> v.user, req |-> LessonReq(v.lesson),
                     success |-> TRUE, code |-> 200, progress |-> save.saved]
  /\ reqs' = [reqs EXCEPT ![r] = Served(r)]

\* POST /:lessonId/submit up to `await Progress.findUserProgress`, and on to the
\* next store call: User.findById when the lesson is completed, progress.save()
\* otherwise
SubmitFindProgress(r, u, l, answers, timeSpent) ==
  LET lesson == lessons[l]
      req == SubmitReq(l, answers, timeSpent)
      found == FindUserProgress(u, l)
      isNew == found = {}
      loaded == IF isNew THEN NewProgress(u, l, "in-progress")
                ELSE CHOOSE p \in found : TRUE
      acc == ProcessAnswers(lesson, answers, timeSpent, 1,
               [thrown |-> FALSE, progress |-> loaded, totalScore |-> 0,
                totalPoints |-> 0, correctAnswers |-> 0])
      finalScore == FinalScore(acc.correctAnswers, lesson)
      isCompleted == IsCompleted(finalScore)
      xpReward == Reward(lesson.xpReward, finalScore)
      featherReward == Reward(lesson.featherReward, finalScore)
      graded == IF isCompleted
                  THEN [acc.progress EXCEPT !.status = "completed", !.score = finalScore,
                                            !.xpEarned = xpReward,
                                            !.feathersEarned = featherReward]
                  ELSE [acc.progress EXCEPT !.status = "failed", !.score = finalScore]
      fail(code, message) ==
        /\ resp' = ErrorResponse("submit", u, req, code, message)
        /\ reqs' = [reqs EXCEPT ![r] = Served(r)]
  IN
  /\ Idle(r)
  /\ UNCHANGED <<users, progress, lessons, now, tiers>>
  /\ IF ~SubmitValid(answers, timeSpent)
       THEN fail(400, SubmitError(answers, timeSpent))
     ELSE IF ~lesson.isActive
       THEN fail(404, "Lesson not found")
     ELSE IF acc.thrown
       THEN fail(400, "Invalid exercise index")
     ELSE /\ reqs' = InFlight(r, IF isCompleted THEN "submit-find-user"
                                 ELSE "submit-save-progress",
                       [user |-> u, lesson |-> l, req |-> req, isNew |-> isNew,
                        loaded |-> loaded, doc |-> graded, score |-> finalScore,
                        correctAnswers |-> acc.correctAnswers, isCompleted |-> isCompleted,
                        xpReward |-> xpReward, featherReward |-> featherReward,
                        loadedUser |-> Null])
          /\ UNCHANGED resp

\* POST /:lessonId/submit: `await User.findById(req.user._id)`
SubmitFindUser(r) ==
  /\ reqs[r].pc = "submit-find-user"
  /\ UNCHANGED <<users, progress, lessons, now, tiers, resp>>
  /\ reqs' = InFlight(r, "submit-save-user",
               [reqs[r].local EXCEPT !.loadedUser = users[reqs[r].local.user]])

\* POST /:lessonId/submit: the rewards, streak and level, and `await user.save()`
SubmitSaveUser(r) ==
  LET v == reqs[r].local
      user == UpdateLevel(UpdateStreak([v.loadedUser EXCEPT !.xp = @ + v.xpReward,
                                                           !.feathers = @ + v.featherReward],
                                       now))
  IN
  /\ reqs[r].pc = "submit-save-user"
  /\ UNCHANGED <<progress, lessons, now, tiers, resp>>
  /\ users' = [users EXCEPT ![v.user] = SaveModified(users[v.user], v.loadedUser, user)]
  /\ reqs' = InFlight(r, "submit-save-progress", v)

\* POST /:lessonId/submit: `await progress.save()` and the response
SubmitSaveProgress(r) ==
  LET v == reqs[r].local
      save == SaveProgress(v.isNew, v.loaded, v.doc)
  IN
  /\ reqs[r].pc = "submit-save-progress"
  /\ UNCHANGED <<users, lessons, now, tiers>>
  /\ progress' = save.progress
  /\ resp' = IF save.failed # ""
               THEN ErrorResponse("submit", v.user, v.req, 400, save.failed)
               ELSE [op |-> "submit", user |-> v.user, req |-> v.req, success |-> TRUE,
                     code |-> 200, score |-> v.score, correctAnswers |-> v.correctAnswers,
                     totalExercises |-> Len(lessons[v.lesson].exercises),
                     isCompleted |-> v.isCompleted,
                     rewards |-> IF v.isCompleted
                                   THEN [xp |-> save.saved.xpEarned,
                                         feathers |-> save.saved.feathersEarned]
                                   ELSE Null,
                     progress |-> save.saved]
  /\ reqs' = [reqs EXCEPT ![r] = Served(r)]

\* POST /sync with one entry {lessonId, status, score} up to
\* `await Progress.findUserProgress`
SyncFindProgress(r, u, l, status, score) ==
  LET found == FindUserProgress(u, l)
      isNew == found = {}
      loaded == IF isNew THEN NewProgress(u, l, status) ELSE CHOOSE p \in found : TRUE
  IN
  /\ Idle(r)
  /\ UNCHANGED <<users, progress, lessons, now, tiers, resp>>
  /\ reqs' = InFlight(r, "sync-save",
               [user |-> u, lesson |-> l, req |-> [lesson |-> l, status |-> status,
                                                   score |-> score],
                isNew |-> isNew, loaded |-> loaded,
                doc |-> [loaded EXCEPT !.status = status, !.score = score]])

\* POST /sync: `await progress.save()` and the response
SyncSaveProgress(r) ==
  LET v == reqs[r].local
      save == SaveProgress(v.isNew, v.loaded, v.doc)
  IN
  /\ reqs[r].pc = "sync-save"
  /\ UNCHANGED <<users, lessons, now, tiers>>
  /\ progress' = save.progress
  /\ resp' = IF save.failed # ""
               THEN ErrorResponse("sync", v.user, v.req, 400, save.failed)
               ELSE [op |-> "sync", user |-> v.user, req |-> v.req, success |-> TRUE,
                     code |-> 200, syncResults |-> <<[lessonId |-> v.lesson,
                                                      status |-> "synced"]>>]
  /\ reqs' = [reqs EXCEPT ![r] = Served(r)]

(***************************************************************************)
(* Two lesson requests of one user at a time.                              *)
(***************************************************************************)
\* a right and a wrong answer to the one exercise of "intro"
RaceAnswerLists == { <<Answer(0, <<" ", "A">>)>>, <<Answer(0, <<"b">>)>> }

RaceSyncStatus == {"completed", "in-progress"}

RaceSyncScores == {100}

StartFind ==
  \E r \in Requests, u \in Learners : StartFindProgress(r, u, "intro")

StartSave == \E r \in Requests : StartSaveProgress(r)

SubmitFind ==
  \E r \in Requests, u \in Learners, answers \in RaceAnswerLists,
     timeSpent \in TimeSpentInputs :
    SubmitFindProgress(r, u, "intro", answers, timeSpent)

SubmitLoadUser == \E r \in Requests : SubmitFindUser(r)

SubmitAward == \E r \in Requests : SubmitSaveUser(r)

SubmitSave == \E r \in Requests : SubmitSaveProgress(r)

SyncFind ==
  \E r \in Requests, u \in Learners, status \in RaceSyncStatus, score \in RaceSyncScores :
    SyncFindProgress(r, u, "intro", status, score)

SyncSave == \E r \in Requests : SyncSaveProgress(r)

NextRaceLessons ==
  \/ StartFind \/ StartSave
  \/ SubmitFind \/ SubmitLoadUser \/ SubmitAward \/ SubmitSave
  \/ SyncFind \/ SyncSave

SpecRaceLessons == Init /\ [][NextRaceLessons]_vars

(***************************************************************************)
(* POST /api/quests/claim/:questId, store call by store call               *)
(***************************************************************************)
\* up to `await User.findById(req.user._id)`
ClaimFindUser(r, u, questId) ==
  /\ Idle(r)
  /\ UNCHANGED <<users, progress, lessons, now, tiers, resp>>
  /\ reqs' = InFlight(r, "claim-save", [user |-> u, quest |-> questId, loadedUser |-> users[u]])

\* from the loaded user to `await user.save()` and the response
ClaimSaveUser(r) ==
  LET v == reqs[r].local
      u == v.user
      questId == v.quest
      req == [quest |-> questId]
      fail(code, message) ==
        /\ resp' = ErrorResponse("claim", u, req, code, message)
        /\ UNCHANGED users
  IN
  /\ reqs[r].pc = "claim-save"
  /\ UNCHANGED <<progress, lessons, now, tiers>>
  /\ reqs' = [reqs EXCEPT ![r] = Served(r)]
  /\ IF questId \notin DOMAIN QuestTypes \cup ObjectPrototypeKeys
       THEN fail(404, "Quest not found")
     ELSE IF ~QuestIsCompleted(u, questId)
       THEN fail(400, "Quest not completed yet")
     ELSE IF QuestAlreadyClaimed(u, questId)
       THEN fail(400, "Quest reward already claimed")
     ELSE IF questId \in ObjectPrototypeKeys
       THEN fail(500, "Cannot destructure property 'xp' of 'quest.reward'")
     ELSE LET reward == QuestTypes[questId]
              user == [v.loadedUser EXCEPT !.xp = @ + reward.xp,
                                           !.feathers = @ + reward.feathers]
          IN /\ users' = [users EXCEPT ![u] = SaveModified(users[u], v.loadedUser, user)]
             /\ resp' = [op |-> "claim", user |-> u, req |-> req, success |-> TRUE,
                         code |-> 200, rewards |-> reward, newXp |-> user.xp,
                         newFeathers |-> user.feathers]

(***************************************************************************)
(* Two requests of one user at a time, over the routes that save the user  *)
(* or a progress record.                                                   *)
(***************************************************************************)
RaceQuestInputs == {"maintain_streak", "no_such_quest"}

ClaimFind ==
  \E r \in Requests, u \in Learners, questId \in RaceQuestInputs : ClaimFindUser(r, u, questId)

ClaimSave == \E r \in Requests : ClaimSaveUser(r)

\* DELETE /:lessonId/progress (one store call)
ResetNow ==
  \E u \in Learners : ResetProgress(u, "intro") /\ UNCHANGED <<reqs, tiers>>

NextRaceRewards ==
  \/ ClaimFind \/ ClaimSave
  \/ StartFind \/ StartSave
  \/ SubmitFind \/ SubmitLoadUser \/ SubmitAward \/ SubmitSave
  \/ SyncFind \/ SyncSave
  \/ PointsFind \/ PointsSave
  \/ ResetNow

SpecRaceRewards == Init /\ [][NextRaceRewards]_vars

(***************************************************************************)
(* GET /api/leagues/friends                                                *)
(***************************************************************************)
\* the position of x in a list sorted by (a, b) => b.leaguePoints - a.leaguePoints
\* with a stable sort: behind every entry with at least as many points
RECURSIVE InsertByPoints(_, _)
InsertByPoints(sorted, x) ==
  IF sorted = <<>> THEN <<x>>
  ELSE IF Head(sorted).leaguePoints >= x.leaguePoints
         THEN <<Head(sorted)>> \o InsertByPoints(Tail(sorted), x)
         ELSE <<x>> \o sorted

\* array.sort((a, b) => b.leaguePoints - a.leaguePoints): entries with equal
\* points keep their order
RECURSIVE SortByPoints(_)
SortByPoints(array) ==
  IF array = <<>> THEN <<>>
  ELSE InsertByPoints(SortByPoints(SubSeq(array, 1, Len(array) - 1)), array[Len(array)])

\* array.slice(0, n)
Slice(array, n) == SubSeq(array, 1, Min(n, Len(array)))

\* array.findIndex(pred) + 1 for the entry marked isCurrentUser
CurrentUserRank(allUsers) ==
  IF \E i \in DOMAIN allUsers : allUsers[i].isCurrentUser
    THEN CHOOSE i \in DOMAIN allUsers :
           /\ allUsers[i].isCurrentUser
           /\ \A j \in 1..(i - 1) : ~allUsers[j].isCurrentUser
    ELSE 0

\* an entry of the friends list
FriendEntry(v, isCurrentUser) ==
  [id |-> v, level |-> users[v].level, xp |-> users[v].xp, feathers |-> users[v].feathers,
   streak |-> users[v].streak, league |-> users[v].league,
   leaguePoints |-> users[v].leaguePoints, isCurrentUser |-> isCurrentUser]

FriendsLeaderboard(u) ==
  LET following == users[u].following
      \* populate('following') leaves out ids that match no user
      populated == SelectSeq(following, LAMBDA v : v \in DOMAIN users)
      friends == SortByPoints([i \in DOMAIN populated |-> FriendEntry(populated[i], FALSE)])
      allUsers == SortByPoints(<<FriendEntry(u, TRUE)>> \o friends)
  IN
  /\ UNCHANGED <<users, progress, lessons, now>>
  /\ resp' = [op |-> "friends", user |-> u, req |-> [list |-> "friends"],
              success |-> TRUE, code |-> 200,
              friends |-> Slice(friends, 10), allUsers |-> Slice(allUsers, 20),
              userRank |-> CurrentUserRank(allUsers), totalFriends |-> Len(friends)]

(***************************************************************************)
(* The friends leaderboard of a user who follows others.                   *)
(***************************************************************************)
ViewFriends ==
  \E u \in Learners : FriendsLeaderboard(u) /\ UNCHANGED <<reqs, tiers>>

\* update-points requests of the user and of a user they may follow
EarnFriendPoints ==
  \E u \in {"u1", "u2"} :
    /\ users[u].leaguePoints < MaxBoardPoints
    /\ UpdatePoints(u, 1000)
    /\ UNCHANGED <<reqs, tiers>>

NextFriends ==
  \/ FollowFind \/ FollowLoad \/ FollowPush \/ FollowBack
  \/ EarnFriendPoints \/ ViewFriends

SpecFriends == InitBoard /\ [][NextFriends]_vars

(***************************************************************************)
(* A course of two published lessons, the second behind the first.         *)
(***************************************************************************)
\* the catalog with "numbers" published: "intro" again, behind prerequisite "intro"
CourseCatalog ==
  [LessonCatalog EXCEPT
     !["numbers"] = [LessonCatalog["intro"] EXCEPT !.prerequisites = {"intro"}]]

InitCourse ==
  /\ users = [u \in Users |-> NewUser]
  /\ progress = {}
  /\ lessons = CourseCatalog
  /\ now = 0
  /\ resp = [op |-> "none"]
  /\ reqs = NoRequests
  /\ tiers = {}

NextCourse == Start \/ Submit \/ Reset

SpecCourse == InitCourse /\ [][NextCourse]_vars

(***************************************************************************)
(* The social routes, one request at a time: follow, unfollow and          *)
(* DELETE /api/users/account.                                              *)
(***************************************************************************)
\* array.filter(id => id.toString() !== x)
Without(array, x) == SelectSeq(array, LAMBDA y : y # x)

\* POST /api/users/follow/:userId
FollowUser(u, userId) ==
  /\ UNCHANGED <<progress, lessons, now>>
  /\ IF userId = u
       THEN /\ resp' = FollowResponse(u, userId, FALSE, 400, "You cannot follow yourself")
            /\ UNCHANGED users
     ELSE IF userId \notin DOMAIN users
       THEN /\ resp' = FollowResponse(u, userId, FALSE, 404, "User not found")
            /\ UNCHANGED users
     ELSE IF Includes(users[u].following, userId)
       THEN /\ resp' = FollowResponse(u, userId, FALSE, 400,
                                      "You are already following this user")
            /\ UNCHANGED users
     ELSE /\ users' = [users EXCEPT ![u].following = Append(@, userId),
                                    ![userId].followers = Append(@, u)]
          /\ resp' = FollowResponse(u, userId, TRUE, 200, "User followed successfully")

\* DELETE /api/users/follow/:userId
UnfollowUser(u, userId) ==
  /\ UNCHANGED <<progress, lessons, now>>
  /\ IF userId \notin DOMAIN users
       THEN /\ resp' = [op |-> "unfollow", user |-> u, req |-> [userId |-> userId],
                        success |-> FALSE, code |-> 404, message |-> "User not found"]
            /\ UNCHANGED users
       ELSE /\ users' = [users EXCEPT ![u].following = Without(@, userId),
                                      ![userId].followers = Without(@, u)]
            /\ resp' = [op |-> "unfollow", user |-> u, req |-> [userId |-> userId],
                        success |-> TRUE, code |-> 200,
                        message |-> "User unfollowed successfully"]

\* DELETE /api/users/account
DeleteAccount(u) ==
  /\ UNCHANGED <<lessons, now>>
  /\ progress' = {p \in progress : p.user # u}
  /\ users' = [v \in DOMAIN users \ {u} |-> users[v]]
  /\ resp' = [op |-> "delete-account", user |-> u, req |-> [userId |-> u],
              success |-> TRUE, code |-> 200, message |-> "Account deleted successfully"]

\* ids a client puts in the route (the last is no user's id)
SocialTargets == Users \cup {"nobody"}

\* the requests of the accounts that exist: authMiddleware turns away a token
\* whose user is gone
Follow ==
  \E u \in DOMAIN users, userId \in SocialTargets :
    FollowUser(u, userId) /\ UNCHANGED <<reqs, tiers>>

Unfollow ==
  \E u \in DOMAIN users, userId \in SocialTargets :
    UnfollowUser(u, userId) /\ UNCHANGED <<reqs, tiers>>

Delete ==
  \E u \in DOMAIN users : DeleteAccount(u) /\ UNCHANGED <<reqs, tiers>>

NextSocial == Follow \/ Unfollow \/ Delete

SpecSocial == Init /\ [][NextSocial]_vars

(***************************************************************************)
(* Vocabulary of the properties.                                           *)
(***************************************************************************)
\* the integer nearest to num / den, a half counting upwards
NearestInt(num, den) ==
  CHOOSE q \in 0..((num \div den) + 1) :
    /\ 2 * q * den - den <= 2 * num
    /\ 2 * num < 2 * q * den + den

\* the positions of a string that hold no blank
NonBlank(s) == {i \in 1..Len(s) : s[i] # " "}

\* a string without its leading and trailing blanks, letters in lower case
Core(s) ==
  IF NonBlank(s) = {} THEN <<>>
  ELSE LET lo == CHOOSE i \in NonBlank(s) : \A j \in NonBlank(s) : i <= j
           hi == CHOOSE i \in NonBlank(s) : \A j \in NonBlank(s) : j <= i
       IN [i \in 1..(hi - lo + 1) |->
             CASE s[lo + i - 1] = "A" -> "a"
               [] s[lo + i - 1] = "B" -> "b"
               [] OTHER -> s[lo + i - 1]]

\* case-insensitive, whitespace-trimmed equality
SameAnswer(a, b) == Core(a) = Core(b)

\* the results of a record whose submitted answer equals the exercise's answer
CorrectResults(p) ==
  {i \in 1..Len(p.exerciseResults) :
     SameAnswer(p.exerciseResults[i].userAnswer,
                lessons[p.lesson].exercises[p.exerciseResults[i].exerciseIndex + 1].correctAnswer)}

SubmitAnswered(u) == now' = now /\ resp'.op = "submit" /\ resp'.user = u

\* the step ran the completed branch of a submit request of user u: the response
\* reports the completion, or the record's save failed after the user's save
CompletedBy(u) ==
  /\ SubmitAnswered(u)
  /\ \/ resp'.success /\ resp'.isCompleted
     \/ ~resp'.success /\ resp'.message = "Validation Error"

\* user u holds a completed record of lesson l
HasCompleted(u, l) ==
  \E p \in progress : p.user = u /\ p.lesson = l /\ p.status = "completed"

(***************************************************************************)
(* C3: a submission for a (user, lesson) whose record is completed fails   *)
(* and leaves the user document and the progress records as they were.     *)
(***************************************************************************)
C3_ResubmitRejected ==
  [][\A u \in Users, l \in Lessons :
       (HasCompleted(u, l) /\ SubmitAnswered(u) /\ resp'.req.lesson = l) =>
         (~resp'.success /\ users' = users /\ progress' = progress)]_vars

(***************************************************************************)
(* C4: a completion on the calendar day after the day of the last-lesson   *)
(* date, at any times of the two days, adds exactly 1 to the streak.       *)
(***************************************************************************)
C4_NextDayIncrements ==
  [][\A u \in Users :
       (/\ CompletedBy(u)
        /\ users[u].lastLessonDate # NoDate
        /\ DayOf(now) = DayOf(users[u].lastLessonDate) + 1) =>
         users'[u].streak = users[u].streak + 1]_vars

C6_SameDayKeepsStreak ==
  [][\A u \in Users :
       CompletedBy(u) =>
         /\ (/\ users[u].lastLessonDate # NoDate
             /\ DayOf(users[u].lastLessonDate) = DayOf(now)) =>
               users'[u].streak = users[u].streak
         /\ users'[u].lastLessonDate # NoDate
         /\ DayOf(users'[u].lastLessonDate) = DayOf(now)]_vars

\* two completions on day 0, the second later on that day: streak still 1
C6_Witness ==
  /\ resp.op = "submit" /\ resp.success /\ resp.isCompleted
  /\ DayOf(now) = 0 /\ now > 0
  /\ users[resp.user].xp = 2 * lessons[resp.req.lesson].xpReward
  /\ users[resp.user].streak = 1
  /\ users[resp.user].lastLessonDate = 0
  /\ resp.progress.completedAt = 0

\* the highest league of the ladder whose minimum is at most the total
HighestTier(total) ==
  CHOOSE t \in DOMAIN LeagueInfo :
    /\ LeagueInfo[t].minPoints <= total
    /\ \A o \in DOMAIN LeagueInfo :
         LeagueInfo[o].minPoints <= total => LeagueInfo[o].minPoints <= LeagueInfo[t].minPoints

(***************************************************************************)
(* C7: after a successful update-points the user's league points are the   *)
(* old total plus the amount, and the user's league is the highest tier of *)
(* Bronze(0), Silver(1000), Gold(2500), Platinum(5000), Diamond(10000),    *)
(* Master(20000) whose minimum is at most the new total.                   *)
(***************************************************************************)
C7_LeagueIsHighestTier ==
  [][(resp'.op = "update-points" /\ resp'.success) =>
       LET u == resp'.user
       IN /\ users'[u].leaguePoints = users[u].leaguePoints + resp'.req.points
          /\ users'[u].league = HighestTier(users'[u].leaguePoints)]_vars

(***************************************************************************)
(* C8: an update-points that takes the total from below a tier's minimum   *)
(* to that minimum or above reports promoted = true, sets the league to    *)
(* the tier reached and the week counter to 1; one that keeps the total    *)
(* inside the range of the user's league leaves the league as it was,      *)
(* reports promoted = false and adds exactly 1 to the week counter.        *)
(***************************************************************************)
C8_PromotionOnCrossing ==
  [][(resp'.op = "update-points" /\ resp'.success) =>
       LET u == resp'.user
           old == users[u].leaguePoints
           new == old + resp'.req.points
       IN /\ (HighestTier(old) # HighestTier(new)) =>
               /\ resp'.promoted
               /\ users'[u].league = HighestTier(new)
               /\ users'[u].leagueWeek = 1
          /\ (HighestTier(new) = users[u].league) =>
               /\ ~resp'.promoted
               /\ users'[u].league = users[u].league
               /\ users'[u].leagueWeek = users[u].leagueWeek + 1]_vars

(***************************************************************************)
(* C9: update-points accepts every amount >= 0, 0 included, and rejects    *)
(* every negative amount, leaving the user document as it was.             *)
(***************************************************************************)
C9_NonNegativeAccepted ==
  [][(resp'.op = "update-points") =>
       IF resp'.req.points >= 0 THEN resp'.success
       ELSE ~resp'.success /\ users' = users]_vars

\* user v is strictly ahead of user u in the leaderboard's order
Ahead(v, u) ==
  \/ users[v].leaguePoints > users[u].leaguePoints
  \/ users[v].leaguePoints = users[u].leaguePoints /\ users[v].xp > users[u].xp

\* the users a leaderboard request's league filter selects
Filtered(req) == {v \in Users : req.league = "" \/ users[v].league = req.league}

(***************************************************************************)
(* C10: a leaderboard lists the users of its filter by league points       *)
(* descending, then XP descending, each at most once (all of them when the *)
(* first page holds them), and the caller's userRank is 1 plus the number  *)
(* of users of the filter with strictly more league points, or the same    *)
(* league points and strictly more XP.  (No document changes while the     *)
(* leaderboard is the latest response.)                                    *)
(***************************************************************************)
C10_LeaderboardOrderAndRank ==
  (resp.op = "leaderboard") =>
    LET lb == resp.leaderboard
    IN /\ \A i, j \in DOMAIN lb :
            i < j => /\ lb[i].id # lb[j].id
                     /\ ~Ahead(lb[j].id, lb[i].id)
       /\ \A i \in DOMAIN lb :
            /\ lb[i].id \in Filtered(resp.req)
            /\ lb[i].leaguePoints = users[lb[i].id].leaguePoints
            /\ lb[i].xp = users[lb[i].id].xp
       /\ (resp.req.page = 1 /\ resp.req.limit >= Cardinality(Filtered(resp.req))) =>
            {lb[i].id : i \in DOMAIN lb} = Filtered(resp.req)
       /\ resp.userRank =
            1 + Cardinality({v \in Filtered(resp.req) : Ahead(v, resp.user)})

\* B (1000 points, 800 XP) is listed before A (1000 points, 500 XP), who asks
\* and is ranked second
C10_Witness ==
  /\ resp.op = "leaderboard"
  /\ Len(resp.leaderboard) >= 2
  /\ resp.leaderboard[1].leaguePoints = 1000 /\ resp.leaderboard[1].xp = 800
  /\ resp.leaderboard[2].leaguePoints = 1000 /\ resp.leaderboard[2].xp = 500
  /\ resp.user = resp.leaderboard[2].id
  /\ resp.userRank = 2

(***************************************************************************)
(* C11: in every reachable state, after any sequence of lesson submissions *)
(* and quest claims, each user's level is floor(XP / 1000) + 1.            *)
(***************************************************************************)
C11_LevelFollowsXp ==
  \A u \in Users : users[u].level = (users[u].xp \div 1000) + 1

\* the step answers a claim of quest q by user u
ClaimAnswered(u, q) ==
  resp'.op = "claim" /\ resp'.user = u /\ resp'.req.quest = q

(***************************************************************************)
(* C15: once a user has claimed a quest successfully, a later claim of the *)
(* same quest by that user fails and leaves the user's XP and feathers as  *)
(* they were (stated for the claim that follows the successful one).       *)
(***************************************************************************)
C15_ClaimOnce ==
  [][(resp.op = "claim" /\ resp.success /\ ClaimAnswered(resp.user, resp.req.quest)) =>
       /\ ~resp'.success
       /\ users'[resp.user].xp = users[resp.user].xp
       /\ users'[resp.user].feathers = users[resp.user].feathers]_vars

\* the listings report quest q of user u as completed
ListedCompleted(u, q) ==
  \/ q \in DOMAIN DailyQuests(u) /\ DailyQuests(u)[q].completed
  \/ q \in DOMAIN WeeklyQuests(u) /\ WeeklyQuests(u)[q].completed

(***************************************************************************)
(* C16: a claim of a quest that the daily / weekly listing reports as not  *)
(* completed fails and leaves the user's XP and feathers as they were; a   *)
(* claim of an unknown quest id fails with 404 and changes nothing.        *)
(***************************************************************************)
C16_ClaimNeedsCompletion ==
  [][\A u \in Users :
       (resp'.op = "claim" /\ resp'.user = u) =>
         LET q == resp'.req.quest
         IN IF q \in DOMAIN QuestTypes
              THEN ~ListedCompleted(u, q) =>
                     /\ ~resp'.success
                     /\ users'[u].xp = users[u].xp
                     /\ users'[u].feathers = users[u].feathers
              ELSE ~resp'.success /\ resp'.code = 404 /\ users' = users]_vars

\* the submit request r passes the validator chain and names an active lesson
SubmitWellFormed(r) ==
  SubmitValid(r.answers, r.timeSpent) /\ lessons[r.lesson].isActive

\* every answer of the submit request r names an exercise of the lesson
IndicesValid(r) ==
  \A i \in 1..Len(r.answers) : HasExercise(lessons[r.lesson], r.answers[i].exerciseIndex)

(***************************************************************************)
(* C17: a submission whose answers all name exercises of the lesson (the   *)
(* empty list and lists that repeat an index included) is accepted with an *)
(* integer score in 0..100, and the progress record is stored with that    *)
(* score.                                                                  *)
(***************************************************************************)
C17_ScoreInRangeAndStored ==
  (resp.op = "submit" /\ SubmitWellFormed(resp.req) /\ IndicesValid(resp.req)) =>
    /\ resp.success
    /\ resp.score \in 0..100
    /\ \E p \in progress : /\ p.user = resp.user /\ p.lesson = resp.req.lesson
                           /\ p.score = resp.score

(***************************************************************************)
(* C18: a submission with an answer whose exerciseIndex is not an index of *)
(* the lesson's exercise list fails with status 400 "Invalid exercise      *)
(* index", and the progress records and the user documents (XP, feathers,  *)
(* streak, level) are what they were before the request.                   *)
(***************************************************************************)
C18_InvalidIndexChangesNothing ==
  [][\A u \in Users :
       (SubmitAnswered(u) /\ SubmitWellFormed(resp'.req) /\ ~IndicesValid(resp'.req)) =>
         /\ ~resp'.success
         /\ resp'.code = 400
         /\ resp'.message = "Invalid exercise index"
         /\ progress' = progress
         /\ users' = users]_vars

\* a correct answer to exercise 0 followed by an answer to an exercise the
\* lesson does not have: rejected, no record, the user as registered
C18_Witness ==
  /\ resp.op = "submit" /\ ~resp.success /\ resp.message = "Invalid exercise index"
  /\ Len(resp.req.answers) >= 2
  /\ HasExercise(lessons[resp.req.lesson], resp.req.answers[1].exerciseIndex)
  /\ IsCorrect(resp.req.answers[1].userAnswer,
               lessons[resp.req.lesson].exercises[1].correctAnswer)
  /\ resp.req.answers[1].exerciseIndex = 0
  /\ ~HasExercise(lessons[resp.req.lesson], resp.req.answers[2].exerciseIndex)
  /\ progress = {}
  /\ users[resp.user].xp = 0 /\ users[resp.user].streak = 0

\* tiers a and b share a point of their half-open ranges [minPoints, maxPoints)
RangesOverlap(a, b) == a.minPoints < b.maxPoints /\ b.minPoints < a.maxPoints

NoTierOverlap(T) == \A a, b \in T : a.id # b.id => ~RangesOverlap(a, b)

\* the configuration a create or PATCH request asks for
RequestedTiers(r) ==
  IF r.op = "createLeague"
    THEN tiers \cup {[id |-> 0, level |-> r.req.level, minPoints |-> r.req.minPoints,
                      maxPoints |-> r.req.maxPoints]}
    ELSE {IF t.id = r.req.id
            THEN [t EXCEPT !.level = r.req.level, !.minPoints = r.req.minPoints,
                           !.maxPoints = r.req.maxPoints]
            ELSE t : t \in tiers}

(***************************************************************************)
(* C19: after any sequence of create, PATCH and delete requests no two     *)
(* tiers have overlapping ranges [minPoints, maxPoints); a create or PATCH *)
(* request whose result would hold two overlapping tiers fails and leaves  *)
(* the configuration as it was.                                            *)
(***************************************************************************)
C19_TiersNeverOverlap ==
  /\ []NoTierOverlap(tiers)
  /\ [][(resp'.op \in {"createLeague", "patchLeague"}
          /\ ~NoTierOverlap(RequestedTiers(resp'))) =>
            (~resp'.success /\ tiers' = tiers)]_vars

\* a create request for [10, 30) answered with a failure while [0, 20) exists
C19_Witness ==
  /\ resp.op = "createLeague" /\ resp.user = "admin" /\ ~resp.success /\ resp.code = 500
  /\ resp.req.minPoints = 10 /\ resp.req.maxPoints = 30
  /\ tiers = {[id |-> 1, level |-> 1, minPoints |-> 0, maxPoints |-> 20]}

(***************************************************************************)
(* C13: update-points requests of one user that run at the same time leave *)
(* the stored league points at the old value plus the points of each       *)
(* request: every answered request adds its points to the stored value.    *)
(***************************************************************************)
C13_NoLostPoints ==
  [][\A r \in Requests :
       (reqs[r].pc = "points-save" /\ reqs'[r].pc = "idle") =>
         LET u == reqs[r].user
         IN /\ resp'.success
            /\ users'[u].leaguePoints = users[u].leaguePoints + reqs[r].points]_vars

\* no id appears twice in the array
NoDuplicates(array) == \A i, j \in DOMAIN array : array[i] = array[j] => i = j

\* request slot r answers its follow request in this step
FollowAnswered(r) ==
  /\ reqs'[r].pc = "idle" /\ reqs'[r].served = reqs[r].served + 1
  /\ resp'.op = "follow"

(***************************************************************************)
(* C20: a follow request for a user the caller already follows fails and   *)
(* leaves the follower and following sets as they were; a request to       *)
(* follow oneself fails; and after any sequence of follow requests, two    *)
(* requests for one target at the same time included, no id appears twice  *)
(* in a user's followers or following.                                     *)
(***************************************************************************)
C20_FollowSetsHaveNoDuplicates ==
  /\ [](\A u \in Users : NoDuplicates(users[u].following)
                         /\ NoDuplicates(users[u].followers))
  /\ [][\A r \in Requests :
          /\ (reqs[r].pc = "follow-check"
              /\ Includes(users[reqs[r].user].following, reqs[r].userId)
              /\ reqs'[r] # reqs[r]) =>
               (FollowAnswered(r) /\ ~resp'.success /\ users' = users)
          /\ (FollowAnswered(r) /\ resp'.user = resp'.req.userId) =>
               (~resp'.success /\ users' = users)]_vars

\* request slot r runs a submit request that has saved the user with the
\* completion rewards and has not yet saved its progress document
HasAwarded(r) ==
  reqs[r].pc = "submit-save-progress" /\ reqs[r].local.isCompleted

(***************************************************************************)
(* C12: two submit requests for one (user, lesson) that run at the same    *)
(* time never both award the completion rewards, however their store       *)
(* reads and writes interleave.                                            *)
(***************************************************************************)
C12_NotBothAward ==
  \A r1, r2 \in Requests :
    (r1 # r2 /\ HasAwarded(r1) /\ HasAwarded(r2)) =>
      ~(/\ reqs[r1].local.user = reqs[r2].local.user
        /\ reqs[r1].local.lesson = reqs[r2].local.lesson)

\* request slot r is about to save a progress document it created
SavesNewProgress(r) ==
  /\ reqs[r].pc \in {"start-save", "submit-save-progress", "sync-save"}
  /\ reqs[r].local.isNew

(***************************************************************************)
(* C14: under any interleaving of start, submit and sync requests there is *)
(* at most one progress record per (user, lesson); a request that saves a  *)
(* new record for a pair that has one fails and leaves the records as they *)
(* were.                                                                   *)
(***************************************************************************)
C14_OneRecordPerUserLesson ==
  /\ [](\A u \in Users, l \in Lessons : Cardinality(FindUserProgress(u, l)) <= 1)
  /\ [][\A r \in Requests :
          (/\ SavesNewProgress(r)
           /\ FindUserProgress(reqs[r].local.user, reqs[r].local.lesson) # {}
           /\ reqs'[r] # reqs[r]) =>
            (~resp'.success /\ progress' = progress)]_vars

\* a start and a sync both found no record; the sync stored its record first,
\* the start's insert was rejected
C14_Witness ==
  /\ resp.op = "start" /\ ~resp.success /\ resp.message = "Duplicate Field Error"
  /\ \E p \in progress : /\ p.user = resp.user /\ p.lesson = resp.req.lesson
                         /\ p.status = "completed" /\ p.score = 100
  /\ Cardinality(progress) = 1

\* the entry's progress is within 0..target and its flag says "target reached"
EntryConsistent(e, flag) ==
  /\ 0 <= e.progress /\ e.progress <= e.target
  /\ flag <=> (e.progress = e.target)

(***************************************************************************)
(* C21: every daily quest, weekly quest and achievement the routes return  *)
(* has 0 <= progress <= target, and its completed (unlocked) flag is true  *)
(* exactly when progress equals target.                                    *)
(***************************************************************************)
C21_ProgressWithinTarget ==
  /\ resp.op \in {"daily", "weekly"} =>
       \A q \in DOMAIN resp.quests :
         EntryConsistent(resp.quests[q], resp.quests[q].completed)
  /\ resp.op = "achievements" =>
       \A a \in DOMAIN resp.achievements :
         EntryConsistent(resp.achievements[a], resp.achievements[a].unlocked)

\* the daily list after one perfect lesson today: perfect_score at its target
\* and completed, complete_lessons at 1 of 3 and not completed
C21_Witness ==
  /\ resp.op = "daily"
  /\ resp.quests.perfect_score.progress = 1 /\ resp.quests.perfect_score.completed
  /\ resp.quests.complete_lessons.progress = 1 /\ ~resp.quests.complete_lessons.completed
  /\ resp.quests.maintain_streak.completed

\* the step is the user save of a completed submission or of a quest claim
RewardStep ==
  \E r \in Requests : /\ reqs[r].pc \in {"submit-save-user", "claim-save"}
                      /\ reqs'[r] # reqs[r]

(***************************************************************************)
(* C22: a user's XP and feathers change only in the user save of a         *)
(* completed lesson submission or of a quest claim, and only upwards:      *)
(* start, failed submission, reset, sync and update-points leave them as   *)
(* they are, and they never decrease.                                      *)
(***************************************************************************)
C22_RewardsOnlyGrow ==
  [][\A u \in Users :
       /\ users'[u].xp >= users[u].xp
       /\ users'[u].feathers >= users[u].feathers
       /\ (users'[u].xp # users[u].xp \/ users'[u].feathers # users[u].feathers)
            => RewardStep]_vars

(***************************************************************************)
(* C23: an administrator's valid create request for a tier of an unused    *)
(* level whose half-open range [minPoints, maxPoints) intersects no stored *)
(* tier's range succeeds, a range that only touches a stored one at an end *)
(* point included (a contiguous ladder can be stored).                     *)
(***************************************************************************)
C23_ContiguousAccepted ==
  [][(/\ resp'.op = "createLeague" /\ resp'.user = "admin"
      /\ LeagueValid(resp'.req)
      /\ \A t \in tiers : t.level # resp'.req.level /\ ~RangesOverlap(t, resp'.req))
       => resp'.success]_vars

\* list entry a is strictly ahead of entry b: more points, or equal points and more XP
EntryAhead(a, b) ==
  \/ a.leaguePoints > b.leaguePoints
  \/ a.leaguePoints = b.leaguePoints /\ a.xp > b.xp

(***************************************************************************)
(* C24: the friends leaderboard lists the user and the users they follow   *)
(* by league points descending, then XP descending, and userRank is 1 plus *)
(* the number of followed users strictly ahead of the user in that order.  *)
(***************************************************************************)
C24_FriendsOrderAndRank ==
  resp.op = "friends" =>
    LET all == resp.allUsers
    IN /\ \A i, j \in DOMAIN all : i < j => ~EntryAhead(all[j], all[i])
       /\ \A i \in DOMAIN all :
            all[i].isCurrentUser =>
              resp.userRank =
                1 + Cardinality({j \in DOMAIN all : /\ ~all[j].isCurrentUser
                                                    /\ EntryAhead(all[j], all[i])})

\* the place of a league in Bronze < Silver < Gold < Platinum < Diamond < Master
LeagueRank(league) == CHOOSE i \in DOMAIN Leagues : Leagues[i] = league

(***************************************************************************)
(* C25: over successful update-points calls a user's league never moves to *)
(* a lower tier of Bronze < Silver < Gold < Platinum < Diamond < Master,   *)
(* and a call that leaves the total at 20000 or more leaves the user in    *)
(* Master.                                                                 *)
(***************************************************************************)
C25_LeagueNeverDrops ==
  [][(resp'.op = "update-points" /\ resp'.success) =>
       LET u == resp'.user
       IN /\ LeagueRank(users'[u].league) >= LeagueRank(users[u].league)
          /\ users'[u].leaguePoints >= 20000 => users'[u].league = "Master"]_vars

\* the step answers a successful reset of user u's progress in lesson l
ResetAnswered(u, l) ==
  /\ resp'.op = "reset" /\ resp'.success
  /\ resp'.user = u /\ resp'.req.lesson = l
  /\ progress' # progress

(***************************************************************************)
(* C26: once a (user, lesson) record is completed its status stays         *)
(* completed: no step other than a reset of that record (a later submit    *)
(* or sync included) leaves the user without the completed record.         *)
(***************************************************************************)
C26_CompletedStays ==
  [][\A u \in Users, l \in Lessons :
       (HasCompleted(u, l) /\ ~ResetAnswered(u, l)) => HasCompleted(u, l)']_vars

\* the completed record of (u, l) is stored with these earned amounts
StoredCompleted(u, l, xp, feathers) ==
  \E p \in progress' : /\ p.user = u /\ p.lesson = l /\ p.status = "completed"
                       /\ p.xpEarned = xp /\ p.feathersEarned = feathers

(***************************************************************************)
(* C27: a submission that runs the completed branch is all-or-nothing over *)
(* the user document and the progress record, a failing save of the record *)
(* included: either the user's XP and feathers grow and the record is      *)
(* stored as completed with xpEarned and feathersEarned equal to the       *)
(* growth, or XP, feathers and the progress records are all unchanged.     *)
(***************************************************************************)
C27_AwardIffRecorded ==
  [][\A u \in Users :
       CompletedBy(u) =>
         LET xp == users'[u].xp - users[u].xp
             feathers == users'[u].feathers - users[u].feathers
         IN \/ /\ xp > 0 \/ feathers > 0
               /\ StoredCompleted(u, resp'.req.lesson, xp, feathers)
            \/ /\ xp = 0 /\ feathers = 0
               /\ progress' = progress]_vars

\* user u holds a completed record of every prerequisite of lesson l
PrerequisitesCompleted(u, l) ==
  \A q \in lessons[l].prerequisites : HasCompleted(u, q)

\* every record in progress or completed lies behind completed prerequisites
RecordsGated ==
  \A p \in progress :
    p.status \in {"in-progress", "completed"} => PrerequisitesCompleted(p.user, p.lesson)

(***************************************************************************)
(* C28: a start of a lesson succeeds only when the user holds a completed  *)
(* record of every prerequisite of the lesson, and in every reachable      *)
(* state a record that is in progress or completed exists only for a       *)
(* lesson whose prerequisites the user has completed, whichever of start   *)
(* and submit created the record.                                          *)
(***************************************************************************)
C28_PrerequisitesGateRecords ==
  /\ []RecordsGated
  /\ [][(resp'.op = "start" /\ resp'.success) =>
          PrerequisitesCompleted(resp'.user, resp'.req.lesson)]_vars

\* every id in a followers or following list is the id of an existing account
GraphClosed ==
  \A u \in DOMAIN users :
    /\ \A i \in DOMAIN users[u].following : users[u].following[i] \in DOMAIN users
    /\ \A i \in DOMAIN users[u].followers : users[u].followers[i] \in DOMAIN users

\* v is in u's following list exactly when u is in v's followers list
GraphSymmetric ==
  \A u, v \in DOMAIN users :
    Includes(users[u].following, v) <=> Includes(users[v].followers, u)

(***************************************************************************)
(* C29: after any sequence of follow, unfollow and account deletion the    *)
(* social graph is symmetric (B is in A's following list exactly when A is *)
(* in B's followers list) and closed (the lists name existing accounts     *)
(* only).                                                                  *)
(***************************************************************************)
C29_GraphSymmetricAndClosed == GraphSymmetric /\ GraphClosed

\* timeSpent of user u's stored record of lesson l (0 when there is none)
StoredTimeSpent(u, l) ==
  IF FindUserProgress(u, l) = {} THEN 0
  ELSE (CHOOSE p \in FindUserProgress(u, l) : TRUE).timeSpent

(***************************************************************************)
(* C30: a submission whose record is stored adds exactly the request's     *)
(* timeSpent to the record's timeSpent, however many answers the request   *)
(* carries.                                                                *)
(***************************************************************************)
C30_TimeSpentAddedOnce ==
  [][\A u \in Users :
       (SubmitAnswered(u) /\ resp'.success) =>
         resp'.progress.timeSpent =
           StoredTimeSpent(u, resp'.req.lesson) + resp'.req.timeSpent]_vars

====
